---- MODULE Spec2Model ----
(***************************************************************************)
(* SuikaPool (src/ts/script.ts): a merge-fruits game on a canvas.          *)
(*                                                                         *)
(* Numbers.  The program computes with JavaScript doubles.  Here every     *)
(* length, coordinate and velocity is a fixed-point number with SCALE      *)
(* units per pixel, and every product or quotient that leaves the grid is  *)
(* rounded to the nearest unit (ties away from zero), as a double rounds   *)
(* to the nearest representable value.  sqrt is the rounded square root;   *)
(* cos(atan2(dy,dx)) * k is dx * k / distance, and cos = 1, sin = 0 when   *)
(* dx = dy = 0 (atan2(0,0) = 0).  Angles are in units of 1/SCALE radian.   *)
(***************************************************************************)
EXTENDS Integers, Sequences, FiniteSets, TLC

\* fixed-point resolution: units per pixel
SCALE == 100

\* canvas.width and canvas.height in pixels (set by the page, not by the script)
CanvasWidth == 105
CanvasHeight == 105

\* bounds of the explored behaviours
MaxFrames == 2
MaxLaunches == 2
MaxResets == 1

Width == CanvasWidth * SCALE
Height == CanvasHeight * SCALE

Px(n) == n * SCALE

Abs(a) == IF a < 0 THEN -a ELSE a

Sign(a) == IF a < 0 THEN -1 ELSE IF a > 0 THEN 1 ELSE 0

Min(a, b) == IF a < b THEN a ELSE b

\* a / b rounded to the nearest integer, b > 0
RoundDiv(a, b) ==
    IF a >= 0 THEN (2 * a + b) \div (2 * b)
              ELSE -((2 * (-a) + b) \div (2 * b))

RECURSIVE SqrtBits(_, _, _)
\* the largest r >= s with r * r <= n, built from s by adding bit, bit / 2, .., 1
SqrtBits(n, s, bit) ==
    IF bit = 0 THEN s
    ELSE SqrtBits(n,
                  IF s + bit <= 46340 /\ (s + bit) * (s + bit) <= n
                  THEN s + bit ELSE s,
                  bit \div 2)

\* the square root of n rounded down
FloorSqrt(n) == SqrtBits(n, 0, 32768)

\* the nearest integer to the square root of n, s its square root rounded down
Nearest(n, s) == IF n - s * s > s THEN s + 1 ELSE s

\* Math.sqrt, rounded to the nearest unit
Sqrt(n) == Nearest(n, FloorSqrt(n))

\* Math.sqrt(dx * dx + dy * dy)
Distance(dx, dy) == Sqrt(dx * dx + dy * dy)

\* Math.cos(Math.atan2(dy, dx)) * k, where d is the length of (dx, dy)
CosTimes(dx, d, k) == IF d = 0 THEN k ELSE RoundDiv(dx * k, d)

\* Math.sin(Math.atan2(dy, dx)) * k, where d is the length of (dx, dy)
SinTimes(dy, d, k) == IF d = 0 THEN 0 ELSE RoundDiv(dy * k, d)

(***************************************************************************)
(* The catalog                                                             *)
(***************************************************************************)
FruitTypes ==
    << [rank |-> 0,  radius |-> Px(15),  score |-> 1],
       [rank |-> 1,  radius |-> Px(20),  score |-> 2],
       [rank |-> 2,  radius |-> Px(28),  score |-> 3],
       [rank |-> 3,  radius |-> Px(35),  score |-> 4],
       [rank |-> 4,  radius |-> Px(45),  score |-> 5],
       [rank |-> 5,  radius |-> Px(55),  score |-> 6],
       [rank |-> 6,  radius |-> Px(65),  score |-> 7],
       [rank |-> 7,  radius |-> Px(75),  score |-> 8],
       [rank |-> 8,  radius |-> Px(85),  score |-> 9],
       [rank |-> 9,  radius |-> Px(100), score |-> 10],
       [rank |-> 10, radius |-> Px(120), score |-> 11] >>

\* fruitTypes[i], i counted from 0
FruitType(i) == FruitTypes[i + 1]

\* a GameFruit
GameFruit(type, typeIndex, x, y, vx, vy, angle) ==
    [rank |-> type.rank, radius |-> type.radius, score |-> type.score,
     typeIndex |-> typeIndex, x |-> x, y |-> y, vx |-> vx, vy |-> vy,
     angle |-> angle]

\* Math.random() in hundredths: the draws explored
RandomValues == {60, 99}

\* a draw among all the entries of the catalog
generateRandomFruit_All(r) ==
    LET typeIndex == (r * Len(FruitTypes)) \div 100
    IN [rank |-> FruitType(typeIndex).rank,
        radius |-> FruitType(typeIndex).radius,
        score |-> FruitType(typeIndex).score,
        typeIndex |-> typeIndex]

\* generateRandomFruit, for the value r / 100 of Math.random()
generateRandomFruit(r) ==
    LET typeIndex == (r * 5) \div 100
    IN [rank |-> FruitType(typeIndex).rank,
        radius |-> FruitType(typeIndex).radius,
        score |-> FruitType(typeIndex).score,
        typeIndex |-> typeIndex]

(***************************************************************************)
(* update(): integration phase                                             *)
(***************************************************************************)
\* a step without friction
Friction_None(v) == v

\* v *= 0.98
Friction(v) == RoundDiv(v * 98, 100)

\* a damped wall contact that keeps the direction
Bounce_NoFlip(v) == RoundDiv(v * 7, 10)

\* v *= -0.7
Bounce(v) == RoundDiv(v * (-7), 10)

\* the body of fruits.forEach in update()
Integrate(fruit) ==
    LET vx1 == Friction(fruit.vx)
        vy1 == Friction(fruit.vy)
        x1 == fruit.x + vx1
        y1 == fruit.y + vy1
        left == x1 - fruit.radius < 0
        right == ~left /\ x1 + fruit.radius > Width
        top == y1 - fruit.radius < 0
        bottom == ~top /\ y1 + fruit.radius > Height
    IN [fruit EXCEPT
          !.x = IF left THEN fruit.radius
                ELSE IF right THEN Width - fruit.radius ELSE x1,
          !.y = IF top THEN fruit.radius
                ELSE IF bottom THEN Height - fruit.radius ELSE y1,
          !.vx = IF left \/ right THEN Bounce(vx1) ELSE vx1,
          !.vy = IF top \/ bottom THEN Bounce(vy1) ELSE vy1,
          !.angle = fruit.angle + RoundDiv(vx1 * 5, 100)]

\* the first loop of update() over the whole collection
IntegrateAll(fs) == [k \in 1..Len(fs) |-> Integrate(fs[k])]

(***************************************************************************)
(* update(): pairwise collision and merge phase                            *)
(***************************************************************************)
\* distance < minDistance for the pair
Colliding(f1, f2) ==
    Distance(f2.x - f1.x, f2.y - f1.y) < f1.radius + f2.radius

\* v_new of the elastic collision formula, times 0.95
Elastic(va, ma, vb, mb) ==
    RoundDiv(RoundDiv(va * (ma - mb) + 2 * mb * vb, ma + mb) * 95, 100)

\* the pair <<f1, f2>> moved apart by (tx, ty), half each, with the velocities of
\* the elastic collision
Respond(f1, f2, tx, ty, m1, m2) ==
    << [f1 EXCEPT !.x = f1.x - RoundDiv(tx, 2),
                  !.y = f1.y - RoundDiv(ty, 2),
                  !.vx = Elastic(f1.vx, m1, f2.vx, m2),
                  !.vy = Elastic(f1.vy, m1, f2.vy, m2)],
       [f2 EXCEPT !.x = f2.x + RoundDiv(tx, 2),
                  !.y = f2.y + RoundDiv(ty, 2),
                  !.vx = Elastic(f2.vx, m2, f1.vx, m1),
                  !.vy = Elastic(f2.vy, m2, f1.vy, m1)] >>

\* the response to a pair at the given distance, closer than minDistance
Separate(f1, f2, distance) ==
    Respond(f1, f2,
            CosTimes(f2.x - f1.x, distance, (f1.radius + f2.radius) - distance),
            SinTimes(f2.y - f1.y, distance, (f1.radius + f2.radius) - distance),
            f1.radius \div SCALE, f2.radius \div SCALE)

\* separation and velocity response of a colliding pair: <<f1, f2>> afterwards
Collide(f1, f2) == Separate(f1, f2, Distance(f2.x - f1.x, f2.y - f1.y))

\* the merge test of update()
\* a merge test that does not compare the tiers
CanMerge_AnyTier(f1, f2) == f1.typeIndex < Len(FruitTypes) - 1

CanMerge(f1, f2) ==
    f1.typeIndex = f2.typeIndex /\ f1.typeIndex < Len(FruitTypes) - 1

\* a merged fruit that spreads the type of the pair, not the new one
Merged_OldType(f1, f2, newTypeIndex) ==
    LET m1 == f1.radius \div SCALE
        m2 == f2.radius \div SCALE
        newMass == FruitType(newTypeIndex).radius \div SCALE
    IN GameFruit(FruitType(f1.typeIndex), newTypeIndex,
                 RoundDiv(f1.x + f2.x, 2), RoundDiv(f1.y + f2.y, 2),
                 RoundDiv(RoundDiv(m1 * f1.vx + m2 * f2.vx, newMass) * 5, 10),
                 RoundDiv(RoundDiv(m1 * f1.vy + m2 * f2.vy, newMass) * 5, 10),
                 0)

\* the fruit of tier newTypeIndex made of a pair after its collision response:
\* midpoint, half of the mass-weighted mean velocity, angle 0
Merged(f1, f2, newTypeIndex) ==
    LET m1 == f1.radius \div SCALE
        m2 == f2.radius \div SCALE
        newMass == FruitType(newTypeIndex).radius \div SCALE
    IN GameFruit(FruitType(newTypeIndex), newTypeIndex,
                 RoundDiv(f1.x + f2.x, 2), RoundDiv(f1.y + f2.y, 2),
                 RoundDiv(RoundDiv(m1 * f1.vx + m2 * f2.vx, newMass) * 5, 10),
                 RoundDiv(RoundDiv(m1 * f1.vy + m2 * f2.vy, newMass) * 5, 10),
                 0)

\* a merge that keeps the tier of the pair
MergedFruit_SameTier(f1, f2) == Merged(f1, f2, f1.typeIndex)

\* a merge that skips a tier
MergedFruit_SkipTier(f1, f2) == Merged(f1, f2, f1.typeIndex + 2)

\* a merge that leaves the new fruit where the first of the pair is
MergedFruit_AtFirst(f1, f2) ==
    [Merged(f1, f2, f1.typeIndex + 1) EXCEPT !.x = f1.x, !.y = f1.y]

\* const newTypeIndex = f1.typeIndex + 1 and the fruit built from it
MergedFruit(f1, f2) == Merged(f1, f2, f1.typeIndex + 1)

\* a splice that removes nothing
Splice_None(fs, k) == fs

\* fruits.splice(k, 1), k counted from 1
Splice(fs, k) == SubSeq(fs, 1, k - 1) \o SubSeq(fs, k + 1, Len(fs))

\* the end of the loop body for a pair that collided, pair being the two fruits
\* after the collision response: the merge, or the next pair
\* a merge that scores the tier of the pair instead of the tier it makes
Resolve_OldScore(st, pair) ==
    IF CanMerge(pair[1], pair[2])
    THEN [fruits |-> Append(Splice(Splice(st.fruits, st.j), st.i),
                            MergedFruit(pair[1], pair[2])),
          score |-> st.score + FruitType(pair[1].typeIndex).score,
          merges |-> st.merges + 1,
          i |-> st.i + 1, j |-> st.i + 2]
    ELSE [st EXCEPT !.fruits[st.i] = pair[1], !.fruits[st.j] = pair[2],
                    !.j = st.j + 1]

Resolve(st, pair) ==
    IF CanMerge(pair[1], pair[2])
    THEN [fruits |-> Append(Splice(Splice(st.fruits, st.j), st.i),
                            MergedFruit(pair[1], pair[2])),
          score |-> st.score + FruitType(pair[1].typeIndex + 1).score,
          merges |-> st.merges + 1,
          i |-> st.i + 1, j |-> st.i + 2]
    ELSE [st EXCEPT !.fruits[st.i] = pair[1], !.fruits[st.j] = pair[2],
                    !.j = st.j + 1]

\* nested for loops whose inner loop starts at j = i
PairStep_SelfPair(st) ==
    IF st.j > Len(st.fruits)
    THEN [st EXCEPT !.i = st.i + 1, !.j = st.i + 1]
    ELSE IF ~Colliding(st.fruits[st.i], st.fruits[st.j])
    THEN [st EXCEPT !.j = st.j + 1]
    ELSE Resolve(st, Collide(st.fruits[st.i], st.fruits[st.j]))

\* one pass through the body of the nested for loops of update(), at the pair
\* (st.i, st.j), counted from 1: the collection, the score, the number of merges
\* and the pair examined next
PairStep(st) ==
    IF st.j > Len(st.fruits)
    THEN [st EXCEPT !.i = st.i + 1, !.j = st.i + 2]
    ELSE IF ~Colliding(st.fruits[st.i], st.fruits[st.j])
    THEN [st EXCEPT !.j = st.j + 1]
    ELSE Resolve(st, Collide(st.fruits[st.i], st.fruits[st.j]))

RECURSIVE PairLoop(_)
\* the nested for loops of update(), continued from st
PairLoop(st) ==
    IF st.i > Len(st.fruits) THEN st ELSE PairLoop(PairStep(st))

\* the nested for loops of update() when they start: i = 0, j = i + 1, counted
\* from 1
PairStart(mid, sc) ==
    [fruits |-> mid, score |-> sc, merges |-> 0, i |-> 1, j |-> 2]

RECURSIVE PairRun(_)
\* the successive states of the nested for loops of update(), from st on
PairRun(st) ==
    IF st.i > Len(st.fruits) THEN << st >> ELSE << st >> \o PairRun(PairStep(st))

\* the second phase of update() on the collection mid left by the first
Pairwise(mid, sc) == PairLoop(PairStart(mid, sc))

\* what update() leaves, given both phases: the collection after the integration
\* phase (mid), the collection, the score and the number of merges
Updated(mid, out) ==
    [fruits |-> out.fruits, score |-> out.score, merges |-> out.merges,
     mid |-> mid]

\* the pairwise phase applied to mid
UpdateFrom(mid, sc) == Updated(mid, Pairwise(mid, sc))

\* update()
update(fs, sc) == UpdateFrom(IntegrateAll(fs), sc)

(***************************************************************************)
(* Fill gauge                                                              *)
(***************************************************************************)
RECURSIVE Pow10(_)
\* 10^e
Pow10(e) == IF e = 0 THEN 1 ELSE 10 * Pow10(e - 1)

RECURSIVE Quot(_, _, _)
\* n * 10^k / d rounded down, n >= 0, d > 0
Quot(n, d, k) ==
    IF k = 0 THEN n \div d
    ELSE (n \div d) * Pow10(k) + Quot((n % d) * 10, d, k - 1)

RECURSIVE SumSquares(_)
\* the sum of radius * radius over the collection, in square pixels
SumSquares(fs) ==
    IF fs = << >> THEN 0
    ELSE LET r == Head(fs).radius \div SCALE IN r * r + SumSquares(Tail(fs))

\* an occupancy without the cap at 100
calculateFillPercentage_NoClamp(fs) ==
    Quot(355 * SumSquares(fs), 113 * (CanvasWidth * CanvasHeight), 4)

\* calculateFillPercentage(), in 1/SCALE percent; Math.PI is 355 / 113
calculateFillPercentage(fs) ==
    Min(Quot(355 * SumSquares(fs), 113 * (CanvasWidth * CanvasHeight), 4),
        100 * SCALE)

\* a game over test with a threshold of 95 percent
drawFillGauge_95(fs, over) ==
    IF calculateFillPercentage(fs) >= 95 * SCALE /\ ~over THEN TRUE ELSE over

\* the game over test at the end of drawFillGauge(): the new value of gameOver
drawFillGauge(fs, over) ==
    IF calculateFillPercentage(fs) >= 90 * SCALE /\ ~over THEN TRUE ELSE over

(***************************************************************************)
(* Spawn placement                                                         *)
(***************************************************************************)
\* isOverlapping(x, y, radius) against the collection fs
isOverlapping(fs, x, y, radius) ==
    \E i \in 1..Len(fs) :
        Distance(x - fs[i].x, y - fs[i].y) < radius + fs[i].radius

RECURSIVE SearchPosition_LeftFirst(_, _, _, _, _)
\* a search that tries the left candidate before the right one
SearchPosition_LeftFirst(fs, x, y, radius, searchOffset) ==
    LET rightX == x + searchOffset
        leftX == x - searchOffset
        next == searchOffset + Px(5)
    IN IF leftX - radius > 0 /\ ~isOverlapping(fs, leftX, y, radius)
       THEN leftX
       ELSE IF rightX + radius < Width /\ ~isOverlapping(fs, rightX, y, radius)
       THEN rightX
       ELSE IF x - next < 0 /\ x + next > Width
       THEN x
       ELSE SearchPosition_LeftFirst(fs, x, y, radius, next)

RECURSIVE SearchPosition_NoBound(_, _, _, _, _)
\* a search that does not test the right candidate against the right wall
SearchPosition_NoBound(fs, x, y, radius, searchOffset) ==
    LET rightX == x + searchOffset
        leftX == x - searchOffset
        next == searchOffset + Px(5)
    IN IF ~isOverlapping(fs, rightX, y, radius)
       THEN rightX
       ELSE IF leftX - radius > 0 /\ ~isOverlapping(fs, leftX, y, radius)
       THEN leftX
       ELSE IF x - next < 0 /\ x + next > Width
       THEN x
       ELSE SearchPosition_NoBound(fs, x, y, radius, next)

RECURSIVE SearchPosition(_, _, _, _, _)
\* the while (true) loop of prepareNextFruit(): the x it leaves
SearchPosition(fs, x, y, radius, searchOffset) ==
    LET rightX == x + searchOffset
        leftX == x - searchOffset
        next == searchOffset + Px(5)
    IN IF rightX + radius < Width /\ ~isOverlapping(fs, rightX, y, radius)
       THEN rightX
       ELSE IF leftX - radius > 0 /\ ~isOverlapping(fs, leftX, y, radius)
       THEN leftX
       ELSE IF x - next < 0 /\ x + next > Width
       THEN x
       ELSE SearchPosition(fs, x, y, radius, next)

\* a prepareNextFruit() that takes the fruit it places from the new draw
prepareNextFruit_Stale(fs, queue, r) ==
    LET drawn == generateRandomFruit(r)
        y == Height - Px(50)
        x == Width \div 2
        placed == IF isOverlapping(fs, x, y, drawn.radius)
                  THEN SearchPosition(fs, x, y, drawn.radius, Px(5))
                  ELSE x
    IN [fruitToLaunch |-> GameFruit(drawn, drawn.typeIndex, placed, y, 0, 0, 0),
        fruitInQueue |-> drawn]

\* prepareNextFruit(): the new fruitToLaunch and fruitInQueue, r the random draw
prepareNextFruit(fs, queue, r) ==
    LET radius == queue.radius
        y == Height - Px(50)
        x == Width \div 2
        placed == IF isOverlapping(fs, x, y, radius)
                  THEN SearchPosition(fs, x, y, radius, Px(5))
                  ELSE x
    IN [fruitToLaunch |-> GameFruit(queue, queue.typeIndex, placed, y, 0, 0, 0),
        fruitInQueue |-> generateRandomFruit(r)]

(***************************************************************************)
(* Launch                                                                  *)
(***************************************************************************)
\* the fruit with the velocity of the given speed along (dx, dy) of length d
Aimed(fruit, dx, dy, d, speed) ==
    [fruit EXCEPT !.vx = CosTimes(dx, d, speed), !.vy = SinTimes(dy, d, speed)]

\* a launch whose speed has no cap
Thrown_NoCap(fruit, dx, dy, distance) ==
    Aimed(fruit, dx, dy, distance, RoundDiv(distance, 10))

\* the fruit aimed along (dx, dy) of length distance
Thrown(fruit, dx, dy, distance) ==
    Aimed(fruit, dx, dy, distance, Min(RoundDiv(distance, 10), Px(30)))

\* the fruit pushed by the mousedown handler
Launched(fruit, mouse) ==
    Thrown(fruit, mouse.x - fruit.x, mouse.y - fruit.y,
           Distance(mouse.x - fruit.x, mouse.y - fruit.y))

\* a mousedown handler that sets its timer whether or not a fruit is pending
mousedown_AlwaysTimer(fs, pending, mouse, pendingTimers) ==
    IF pending # << >>
    THEN [fruits |-> Append(fs, Launched(pending[1], mouse)),
          fruitToLaunch |-> << >>, timers |-> pendingTimers + 1,
          launched |-> TRUE]
    ELSE [fruits |-> fs, fruitToLaunch |-> pending, timers |-> pendingTimers + 1,
          launched |-> FALSE]

\* a mousedown handler that puts the launched fruit first in the collection
mousedown_Unshift(fs, pending, mouse, pendingTimers) ==
    IF pending # << >>
    THEN [fruits |-> << Launched(pending[1], mouse) >> \o fs,
          fruitToLaunch |-> << >>, timers |-> pendingTimers + 1,
          launched |-> TRUE]
    ELSE [fruits |-> fs, fruitToLaunch |-> pending, timers |-> pendingTimers,
          launched |-> FALSE]

\* a mousedown handler that launches without setting its timer
mousedown_NoTimer(fs, pending, mouse, pendingTimers) ==
    IF pending # << >>
    THEN [fruits |-> Append(fs, Launched(pending[1], mouse)),
          fruitToLaunch |-> << >>, timers |-> pendingTimers,
          launched |-> TRUE]
    ELSE [fruits |-> fs, fruitToLaunch |-> pending, timers |-> pendingTimers,
          launched |-> FALSE]

\* the mousedown handler: what it leaves of fruits, fruitToLaunch and the number
\* of pending timers
mousedown(fs, pending, mouse, pendingTimers) ==
    IF pending # << >>
    THEN [fruits |-> Append(fs, Launched(pending[1], mouse)),
          fruitToLaunch |-> << >>, timers |-> pendingTimers + 1,
          launched |-> TRUE]
    ELSE [fruits |-> fs, fruitToLaunch |-> pending, timers |-> pendingTimers,
          launched |-> FALSE]

(***************************************************************************)
(* Frame loop                                                              *)
(***************************************************************************)
\* a draw() whose game over test reads the collection as it was before the pair
\* loops of update()
Drawn_Stale(u, over) ==
    [fruits |-> u.fruits, score |-> u.score,
     gameOver |-> drawFillGauge(u.mid, over), raf |-> 1,
     stepped |-> TRUE, overAtStep |-> over, mid |-> u.mid,
     merges |-> u.merges, fill |-> calculateFillPercentage(u.fruits)]

\* the rest of gameLoop() after update() returned u: draw(), then the request of
\* the next animation frame
Drawn(u, over) ==
    [fruits |-> u.fruits, score |-> u.score,
     gameOver |-> drawFillGauge(u.fruits, over), raf |-> 1,
     stepped |-> TRUE, overAtStep |-> over, mid |-> u.mid,
     merges |-> u.merges, fill |-> calculateFillPercentage(u.fruits)]

\* a frame callback without the game over guard
gameLoop_NoGuard(fs, sc, over) == Drawn(update(fs, sc), over)

\* gameLoop(): update() then draw() unless the game is over; raf is the number of
\* animation frames it requests
gameLoop(fs, sc, over) ==
    IF over
    THEN [fruits |-> fs, score |-> sc, gameOver |-> over, raf |-> 0,
          stepped |-> FALSE, overAtStep |-> FALSE, mid |-> << >>,
          merges |-> 0, fill |-> -1]
    ELSE Drawn(update(fs, sc), over)

\* the state init() leaves, p being what prepareNextFruit() returned and g what
\* gameLoop() returned
Started(p, g) ==
    [score |-> g.score, gameOver |-> g.gameOver, fruits |-> g.fruits,
     fruitToLaunch |-> p.fruitToLaunch, fruitInQueue |-> p.fruitInQueue,
     raf |-> g.raf, stepped |-> g.stepped, overAtStep |-> g.overAtStep,
     mid |-> g.mid, merges |-> g.merges, fill |-> g.fill]

\* an init() that runs with gameOver still set
init_KeepOver(r1, r2) ==
    Started(prepareNextFruit(<< >>, generateRandomFruit(r1), r2),
            gameLoop(<< >>, 0, TRUE))

\* init(): the state it leaves, r1 and r2 the two random draws
init(r1, r2) ==
    Started(prepareNextFruit(<< >>, generateRandomFruit(r1), r2),
            gameLoop(<< >>, 0, FALSE))

(***************************************************************************)
(* State                                                                   *)
(***************************************************************************)
VARIABLES
    score,          \* let score
    gameOver,       \* let gameOver
    fruits,         \* let fruits
    fruitToLaunch,  \* let fruitToLaunch: << >> for null, <<fruit>> otherwise
    fruitInQueue,   \* let fruitInQueue
    mousePos,       \* let mousePos
    timers,         \* number of pending setTimeout callbacks of the mousedown handler
    rafPending,     \* number of pending requestAnimationFrame callbacks of gameLoop
    last,           \* history: what the last handler other than mousemove did
    used            \* history: number of frames, launches and restarts so far

vars == <<score, gameOver, fruits, fruitToLaunch, fruitInQueue, mousePos, timers,
          rafPending, last, used>>

\* the mouse positions explored, in pixels: the spawn point and below it
AimPoints == { [x |-> Width \div 2, y |-> Height - Px(50)],
               [x |-> Width \div 2, y |-> Height] }

\* the history record of a handler that does not run gameLoop()
Quiet(op) ==
    [op |-> op, launched |-> FALSE, stepped |-> FALSE, overAtStep |-> FALSE,
     before |-> << >>, beforeScore |-> 0, mid |-> << >>, merges |-> 0,
     fill |-> -1, raf |-> 0]

\* the history record of a handler that runs gameLoop(): g is what it returned
Ran(op, fs, sc, g) ==
    [op |-> op, launched |-> FALSE, stepped |-> g.stepped,
     overAtStep |-> g.overAtStep,
     before |-> IF g.stepped THEN fs ELSE << >>,
     beforeScore |-> IF g.stepped THEN sc ELSE 0,
     mid |-> g.mid, merges |-> g.merges, fill |-> g.fill, raf |-> g.raf]

\* the script has run: init() was called once from the initial values
Init ==
    \E r1 \in RandomValues, r2 \in RandomValues :
        \E s \in {init(r1, r2)} :
           /\ score = s.score
           /\ gameOver = s.gameOver
           /\ fruits = s.fruits
           /\ fruitToLaunch = <<s.fruitToLaunch>>
           /\ fruitInQueue = s.fruitInQueue
           /\ mousePos = [x |-> 0, y |-> 0]
           /\ timers = 0
           /\ rafPending = s.raf
           /\ last = Ran("init", << >>, 0, s)
           /\ used = [frames |-> 0, launches |-> 0, resets |-> 0]

\* the mousemove listener; the moves explored are those made while a fruit is
\* waiting to be launched (mousePos is read by the mousedown listener alone)
MouseMove ==
    \E p \in AimPoints :
        /\ p # mousePos
        /\ fruitToLaunch # << >>
        /\ mousePos' = p
        /\ UNCHANGED <<score, gameOver, fruits, fruitToLaunch, fruitInQueue,
                       timers, rafPending, last, used>>

\* the mousedown listener; the launches explored are MaxLaunches of them, and one
\* more once the game is over
MouseDown ==
    /\ used.launches < MaxLaunches + (IF gameOver THEN 1 ELSE 0)
    /\ \E m \in {mousedown(fruits, fruitToLaunch, mousePos, timers)} :
          /\ fruits' = m.fruits
          /\ fruitToLaunch' = m.fruitToLaunch
          /\ timers' = m.timers
          /\ last' = [Quiet("mousedown") EXCEPT !.launched = m.launched]
          /\ used' = IF m.launched THEN [used EXCEPT !.launches = @ + 1] ELSE used
    /\ UNCHANGED <<score, gameOver, fruitInQueue, mousePos, rafPending>>

\* the setTimeout callback of the mousedown listener
TimerFire ==
    /\ timers > 0
    /\ \E r \in RandomValues :
          \E p \in {prepareNextFruit(fruits, fruitInQueue, r)} :
             /\ fruitToLaunch' = <<p.fruitToLaunch>>
             /\ fruitInQueue' = p.fruitInQueue
    /\ timers' = timers - 1
    /\ last' = Quiet("timer")
    /\ UNCHANGED <<score, gameOver, fruits, mousePos, rafPending, used>>

\* a frame whose update() pushes the pending body off the first active body
Frame_Pending ==
    /\ rafPending > 0
    /\ used.frames < MaxFrames
    /\ \E g \in {gameLoop(fruits, score, gameOver)} :
          /\ fruits' = g.fruits
          /\ score' = g.score
          /\ gameOver' = g.gameOver
          /\ rafPending' = rafPending - 1 + g.raf
          /\ last' = Ran("frame", fruits, score, g)
          /\ fruitToLaunch' =
                IF /\ g.stepped
                   /\ fruitToLaunch # << >>
                   /\ fruits # << >>
                   /\ Colliding(fruits[1], fruitToLaunch[1])
                THEN << Collide(fruits[1], fruitToLaunch[1])[2] >>
                ELSE fruitToLaunch
    /\ used' = [used EXCEPT !.frames = @ + 1]
    /\ UNCHANGED <<fruitInQueue, mousePos, timers>>

\* a requestAnimationFrame callback: gameLoop()
Frame ==
    /\ rafPending > 0
    /\ used.frames < MaxFrames
    /\ \E g \in {gameLoop(fruits, score, gameOver)} :
          /\ fruits' = g.fruits
          /\ score' = g.score
          /\ gameOver' = g.gameOver
          /\ rafPending' = rafPending - 1 + g.raf
          /\ last' = Ran("frame", fruits, score, g)
    /\ used' = [used EXCEPT !.frames = @ + 1]
    /\ UNCHANGED <<fruitToLaunch, fruitInQueue, mousePos, timers>>

\* the click listener of the restart button: init()
Restart ==
    /\ used.resets < MaxResets
    /\ \E r1 \in RandomValues, r2 \in RandomValues :
          \E s \in {init(r1, r2)} :
             /\ score' = s.score
             /\ gameOver' = s.gameOver
             /\ fruits' = s.fruits
             /\ fruitToLaunch' = <<s.fruitToLaunch>>
             /\ fruitInQueue' = s.fruitInQueue
             /\ rafPending' = rafPending + s.raf
             /\ last' = Ran("init", << >>, 0, s)
    /\ used' = [used EXCEPT !.resets = @ + 1]
    /\ UNCHANGED <<mousePos, timers>>

Next == MouseMove \/ MouseDown \/ TimerFire \/ Frame \/ Restart

Spec == Init /\ [][Next]_vars

\* a pending setTimeout callback runs: the step TimerFire, told by the number of
\* pending timers, which no other handler lowers
TimerRuns == timers > 0 /\ timers' = timers - 1

\* the whole game with timers that fire: a callback handed to setTimeout runs
\* once its delay has passed
SpecFair == Spec /\ WF_timers(TimerRuns)

(***************************************************************************)
(* update() on drawn collections: the state is that of a game right after  *)
(* a launch, with one to three bodies anywhere on or near the field, and   *)
(* the frame loop runs                                                     *)
(***************************************************************************)
\* the tiers, positions and velocities of the bodies drawn
StepTiers == {0, 1}

\* the x drawn for a body of tier t: inside the field, and with the left or the
\* right edge 2 pixels past the wall
StepXs(t) ==
    {Px(40), Px(50), FruitType(t).radius - Px(2),
     Width - FruitType(t).radius + Px(2)}

StepBodies ==
    UNION { { GameFruit(FruitType(t), t, x, y, vx, 0, 0) :
                x \in StepXs(t),
                y \in {Height \div 2, Height \div 2 + Px(10)},
                vx \in {-Px(10), 0, Px(10)} } : t \in StepTiers }

\* the third bodies drawn: one of each tier at rest among the others, and one
\* falling with its bottom edge 2 pixels past the bottom wall
StepThirds ==
    { GameFruit(FruitType(t), t, Px(45), Height \div 2 + Px(5), 0, 0, 0) :
        t \in StepTiers }
    \cup { GameFruit(FruitType(0), 0, Px(75),
                     Height - FruitType(0).radius + Px(2), 0, Px(10), 0) }

\* bodies of the last two tiers
StepGiants ==
    { GameFruit(FruitType(t), t, x, Height \div 2, vx, 0, 0) :
        t \in {Len(FruitTypes) - 2, Len(FruitTypes) - 1},
        x \in {Px(40), Px(60)}, vx \in {0, Px(10)} }

\* collections of four: two tier-0 bodies that overlap, a third body and a
\* tier-1 body next to where the two merge
StepChains ==
    { << GameFruit(FruitType(0), 0, Px(40), Height \div 2, 0, 0, 0),
         GameFruit(FruitType(0), 0, Px(50), Height \div 2, 0, 0, 0),
         c,
         GameFruit(FruitType(1), 1, x, Height \div 2, 0, 0, 0) >> :
        c \in StepThirds, x \in {Px(45), Px(60)} }

StepInputs ==
    StepChains
    \cup { <<a>> : a \in StepBodies }
    \cup { <<a, b>> : a \in StepBodies, b \in StepBodies }
    \cup { <<a, b, c>> : a \in StepBodies, b \in StepBodies, c \in StepThirds }
    \cup { <<a, b>> : a \in StepGiants, b \in StepGiants }

InitStep ==
    /\ fruits \in StepInputs
    /\ score = 0
    /\ gameOver = FALSE
    /\ fruitToLaunch = << >>
    /\ fruitInQueue = generateRandomFruit(0)
    /\ mousePos = [x |-> 0, y |-> 0]
    /\ timers = 1
    /\ rafPending = 1
    /\ last = [Quiet("mousedown") EXCEPT !.launched = TRUE]
    /\ used = [frames |-> 0, launches |-> 1, resets |-> 0]

NextStep == Frame

SpecStep == InitStep /\ [][NextStep]_vars

(***************************************************************************)
(* prepareNextFruit() and the mousedown handler on drawn collections: the  *)
(* state is that of a game right after a launch, with up to two bodies at  *)
(* rest around the spawn point and the mouse anywhere; the timer fires and *)
(* the mouse button is pressed, no frame runs                              *)
(***************************************************************************)
\* the tiers and the x of the bodies at rest
SpawnTiers == {0, 1}

SpawnXs ==
    {Width \div 2, Width \div 2 + Px(10), Width \div 2 - Px(20),
     Width \div 2 + Px(30)}

SpawnBodies ==
    { GameFruit(FruitType(t), t, x, y, 0, 0, 0) :
        t \in SpawnTiers, x \in SpawnXs, y \in {Height - Px(50), Height - Px(70)} }

SpawnInputs ==
    { << >> } \cup { <<a>> : a \in SpawnBodies }
    \cup { <<a, b>> : a \in SpawnBodies, b \in SpawnBodies }

\* the values of Math.random() drawn for the queued fruit: tiers 0, 1 and 4
SpawnDraws == {0, 20, 99}

\* the mouse positions drawn: those of AimPoints, the initial one, and two
\* farther than 300 pixels from the spawn point
AimInputs ==
    AimPoints
    \cup { [x |-> 0, y |-> 0],
           [x |-> Width \div 2 + Px(300), y |-> Height - Px(50)],
           [x |-> Width \div 2 - Px(250), y |-> Height - Px(300)] }

InitSpawn ==
    /\ fruits \in SpawnInputs
    /\ score = 0
    /\ gameOver = FALSE
    /\ fruitToLaunch = << >>
    /\ fruitInQueue \in { generateRandomFruit(r) : r \in SpawnDraws }
    /\ mousePos \in AimInputs
    /\ timers = 1
    /\ rafPending = 1
    /\ last = [Quiet("mousedown") EXCEPT !.launched = TRUE]
    /\ used = [frames |-> 0, launches |-> 1, resets |-> 0]

NextSpawn == TimerFire \/ MouseDown

SpecSpawn == InitSpawn /\ [][NextSpawn]_vars

(***************************************************************************)
(* Properties                                                              *)
(***************************************************************************)
\* the pairs (i, j), i < j, of the collection fs that overlap
CollidingPairs(fs) ==
    { p \in (1..Len(fs)) \X (1..Len(fs)) :
        p[1] < p[2] /\ Colliding(fs[p[1]], fs[p[2]]) }

\* p is the first pair of S in the scan order of the nested loops
IsFirst(p, S) ==
    \A q \in S : p[1] < q[1] \/ (p[1] = q[1] /\ p[2] <= q[2])

\* the fruit lies inside the field on the x axis, on the y axis
InsideX(f) == f.radius <= f.x /\ f.x <= Width - f.radius
InsideY(f) == f.radius <= f.y /\ f.y <= Height - f.radius

\* the edge of the fruit crosses a wall on the x axis, on the y axis, in the
\* integration phase of the step that starts with it
CrossesX(f) ==
    \/ f.x + Friction(f.vx) - f.radius < 0
    \/ f.x + Friction(f.vx) + f.radius > Width
CrossesY(f) ==
    \/ f.y + Friction(f.vy) - f.radius < 0
    \/ f.y + Friction(f.vy) + f.radius > Height

C2_Original ==
    (last.stepped /\ last.merges > 0) =>
        calculateFillPercentage(fruits) >= calculateFillPercentage(last.before)

\* C2, amended: a merge never raises the occupancy, it lowers the summed area:
\* radius(t+1)^2 < 2 * radius(t)^2 for every tier t of the catalog below the
\* last, so update() never raises the value of calculateFillPercentage and
\* lowers the sum of the squared radii whenever it merges.
C2_MergeLowers ==
    /\ \A t \in 0..(Len(FruitTypes) - 2) :
          (FruitType(t + 1).radius \div SCALE) * (FruitType(t + 1).radius \div SCALE)
            < 2 * (FruitType(t).radius \div SCALE) * (FruitType(t).radius \div SCALE)
    /\ last.stepped =>
          calculateFillPercentage(fruits) <= calculateFillPercentage(last.before)
    /\ (last.stepped /\ last.merges > 0) =>
          SumSquares(fruits) < SumSquares(last.before)

C2_Witness ==
    /\ last.stepped
    /\ last.merges > 0
    /\ calculateFillPercentage(fruits) < calculateFillPercentage(last.before)

\* C3: gameOver is a latch.  A frame that runs while the game is not over sets it
\* exactly when the occupancy it reads is at least 90 percent; nothing else sets
\* it; once true it stays true through every step that is not a restart; a
\* restart clears it.
C3_Latch ==
    [][ /\ (gameOver /\ used'.resets = used.resets) => gameOver'
        /\ (~gameOver /\ used'.frames # used.frames) =>
              (gameOver' <=> calculateFillPercentage(fruits') >= 90 * SCALE)
        /\ (~gameOver /\ used'.frames = used.frames) => ~gameOver'
        /\ used'.resets # used.resets => ~gameOver' ]_vars

C3_Witness == gameOver /\ last.op = "timer"

\* C4: update() never runs while gameOver is true: a frame callback that finds
\* the game over changes neither the collection nor the score and requests no
\* further frame, and whenever update() ran, gameOver was false when it started.
C4_NoStepWhenOver ==
    [][ /\ (gameOver /\ used'.frames # used.frames) =>
              /\ ~last'.stepped
              /\ fruits' = fruits
              /\ score' = score
              /\ rafPending' = rafPending - 1
        /\ last'.stepped => ~last'.overAtStep ]_vars

C4_Witness == gameOver /\ last.op = "frame" /\ ~last.stepped

\* C5, as stated: while a settle timer is pending, the pending-body slot is empty.
C5_Original == timers > 0 => fruitToLaunch = << >>

\* C6, as stated: at the end of update() every active body lies inside the field
\* on both axes.
C6_Original ==
    last.stepped =>
        \A k \in 1..Len(fruits) : InsideX(fruits[k]) /\ InsideY(fruits[k])

\* C7, as stated (for steps without a merge, where the bodies keep their places
\* in the collection): a body whose edge crosses a wall during the step ends the
\* step with the velocity component on that axis of the opposite sign (zero for
\* zero).
C7_Original ==
    (last.stepped /\ last.merges = 0) =>
        \A k \in 1..Len(last.before) :
            /\ CrossesX(last.before[k]) =>
                  Sign(fruits[k].vx) = -Sign(last.before[k].vx)
            /\ CrossesY(last.before[k]) =>
                  Sign(fruits[k].vy) = -Sign(last.before[k].vy)

\* C7, amended: a body whose edge crosses a wall during the integration phase
\* leaves that phase with the velocity component on that axis of the opposite
\* sign (zero stays zero); it ends the step so when no pair overlaps in the
\* pairwise phase, whose collision response may set any sign.
C7_Flip ==
    last.stepped =>
        \A k \in 1..Len(last.before) :
            /\ CrossesX(last.before[k]) =>
                  /\ Sign(last.mid[k].vx) = -Sign(last.before[k].vx)
                  /\ CollidingPairs(last.mid) = {} =>
                        Sign(fruits[k].vx) = -Sign(last.before[k].vx)
            /\ CrossesY(last.before[k]) =>
                  /\ Sign(last.mid[k].vy) = -Sign(last.before[k].vy)
                  /\ CollidingPairs(last.mid) = {} =>
                        Sign(fruits[k].vy) = -Sign(last.before[k].vy)

C7_Witness ==
    /\ last.stepped
    /\ CollidingPairs(last.mid) = {}
    /\ \E k \in 1..Len(last.before) :
          /\ CrossesX(last.before[k])
          /\ last.before[k].vx > 0
          /\ fruits[k].vx < 0

\* the scenario of C8: a single body with vx = 10, vy = 0 and its right edge 2
\* pixels past the right wall
C8_Scenario(fs) ==
    /\ Len(fs) = 1
    /\ fs[1].vx = Px(10)
    /\ fs[1].vy = 0
    /\ fs[1].x + fs[1].radius = Width + Px(2)

\* C8, as stated: after one update() the body has x = width - radius and vx = -7.
C8_Original ==
    (last.stepped /\ C8_Scenario(last.before)) =>
        /\ fruits[1].x = Width - fruits[1].radius
        /\ fruits[1].vx = -Px(7)

\* C8, amended: after one update() the body has x = width - radius and
\* vx = -6.86 (10 * 0.98 * -0.7): the friction is applied before the bounce.
C8_Bounce ==
    (last.stepped /\ C8_Scenario(last.before)) =>
        /\ Len(fruits) = 1
        /\ fruits[1].x = Width - fruits[1].radius
        /\ fruits[1].vx * 100 = -686 * SCALE
        /\ fruits[1].vy = 0
        /\ fruits[1].y = last.before[1].y

C8_Witness ==
    /\ last.stepped
    /\ C8_Scenario(last.before)
    /\ fruits[1].x = Width - fruits[1].radius
    /\ fruits[1].vx < 0

\* C9: a mousedown with no pending body changes nothing: not the collection, the
\* score, gameOver, the queued fruit or the pending slot, and it schedules no
\* timer.
C9_NoOp ==
    [][ (fruitToLaunch = << >> /\ last'.op = "mousedown") =>
            /\ ~last'.launched
            /\ UNCHANGED <<fruits, score, gameOver, fruitInQueue, fruitToLaunch,
                           timers, rafPending, mousePos>> ]_vars

C9_Witness ==
    /\ last.op = "mousedown"
    /\ ~last.launched
    /\ fruitToLaunch = << >>
    /\ timers = 1

\* C10: a mousedown with a pending body appends that body (same tier, same
\* position) at the end of the collection, empties the pending slot and
\* schedules exactly one timer; the bodies already there, the score, gameOver
\* and the queued fruit are unchanged.
C10_Launch ==
    [][ (fruitToLaunch # << >> /\ last'.op = "mousedown" /\ last.op # "mousedown") =>
            /\ last'.launched
            /\ Len(fruits') = Len(fruits) + 1
            /\ SubSeq(fruits', 1, Len(fruits)) = fruits
            /\ [fruits'[Len(fruits')] EXCEPT !.vx = 0, !.vy = 0] = fruitToLaunch[1]
            /\ fruitToLaunch' = << >>
            /\ timers' = timers + 1
            /\ UNCHANGED <<score, gameOver, fruitInQueue>> ]_vars

C10_Witness ==
    /\ last.op = "mousedown"
    /\ last.launched
    /\ Len(fruits) = 2
    /\ fruitToLaunch = << >>
    /\ timers = 1

\* the speed of a body: the length of its velocity
Speed(f) == Distance(f.vx, f.vy)

\* C11: the speed of the launched body is min(0.1 * distance, 30), distance
\* being that from the pending body to the mouse position (to the rounding of
\* the two components): it never exceeds 30, and the velocity is (0, 0) when the
\* mouse is on the pending body.
C11_Speed ==
    [][ (fruitToLaunch # << >> /\ last'.op = "mousedown" /\ last'.launched) =>
            /\ Abs(Speed(fruits'[Len(fruits')])
                   - Min(RoundDiv(Distance(mousePos.x - fruitToLaunch[1].x,
                                           mousePos.y - fruitToLaunch[1].y), 10),
                         Px(30))) <= 1
            /\ Speed(fruits'[Len(fruits')]) <= Px(30) + 1
            /\ (mousePos.x = fruitToLaunch[1].x /\ mousePos.y = fruitToLaunch[1].y) =>
                  (fruits'[Len(fruits')].vx = 0 /\ fruits'[Len(fruits')].vy = 0) ]_vars

C11_Witness ==
    /\ last.op = "mousedown"
    /\ last.launched
    /\ Len(fruits) > 0
    /\ Distance(mousePos.x - fruits[Len(fruits)].x,
                mousePos.y - fruits[Len(fruits)].y) > Px(300)
    /\ Abs(Speed(fruits[Len(fruits)]) - Px(30)) <= 1
    /\ fruits[Len(fruits)].vx # 0
    /\ fruits[Len(fruits)].vy # 0

\* the number of bodies of tier 5 or higher in the collection fs
CountHigh(fs) == Cardinality({ k \in 1..Len(fs) : fs[k].typeIndex >= 5 })

\* C12: in every state the queued fruit and the pending body have a tier in
\* 0..4; a launch adds a body of tier 0..4, and the number of active bodies of
\* tier 5 or higher grows only in a step of update() that merges.
C12_SpawnTiers ==
    /\ [](/\ fruitInQueue.typeIndex \in 0..4
          /\ fruitToLaunch # << >> => fruitToLaunch[1].typeIndex \in 0..4)
    /\ [][ /\ (last'.op = "mousedown" /\ last'.launched /\ fruits' # fruits) =>
                 fruits'[Len(fruits')].typeIndex \in 0..4
           /\ CountHigh(fruits') > CountHigh(fruits) =>
                 (last'.stepped /\ last'.merges > 0) ]_vars

C12_Witness ==
    /\ last.stepped
    /\ last.merges > 0
    /\ CountHigh(fruits) = 1
    /\ CountHigh(last.before) = 0

\* the spawn point of prepareNextFruit(): const y, and x before the search
SpawnY == Height - Px(50)
SpawnX == Width \div 2

\* the offsets from the spawn point the search can try
Offsets == { Px(5) * k : k \in 1..(CanvasWidth \div 5 + 1) }

\* a fruit of the given radius at (x, SpawnY) is strictly inside the side walls
\* and overlaps no fruit of fs
Free(fs, x, radius) ==
    /\ x - radius > 0
    /\ x + radius < Width
    /\ ~isOverlapping(fs, x, SpawnY, radius)

\* no candidate at an offset below off is free
NoneBelow(fs, radius, off) ==
    \A o \in Offsets :
        o < off => (~Free(fs, SpawnX + o, radius) /\ ~Free(fs, SpawnX - o, radius))

\* x is where C13 says the fruit of the given radius is placed among fs
Placement(fs, radius, x) ==
    IF ~isOverlapping(fs, SpawnX, SpawnY, radius)
    THEN x = SpawnX
    ELSE \/ x = SpawnX /\ NoneBelow(fs, radius, Px(5) * (CanvasWidth \div 5 + 2))
         \/ \E off \in Offsets :
               /\ NoneBelow(fs, radius, off)
               /\ \/ x = SpawnX + off /\ Free(fs, SpawnX + off, radius)
                  \/ /\ x = SpawnX - off
                     /\ ~Free(fs, SpawnX + off, radius)
                     /\ Free(fs, SpawnX - off, radius)

\* C13: prepareNextFruit() places the pending body at the centre when the
\* centred position overlaps no active body; otherwise at offset 5 * k from the
\* centre for the smallest k >= 1 for which a candidate lies strictly inside the
\* side walls and overlaps no active body, the right candidate before the left
\* one for the same k.
C13_Placement ==
    [][ timers' = timers - 1 =>
            /\ fruitToLaunch' # << >>
            /\ fruitToLaunch'[1].typeIndex = fruitInQueue.typeIndex
            /\ Placement(fruits, fruitInQueue.radius, fruitToLaunch'[1].x) ]_vars

C13_Witness ==
    /\ last.op = "timer"
    /\ fruitToLaunch # << >>
    /\ fruitToLaunch[1].x < SpawnX
    /\ Free(fruits, fruitToLaunch[1].x, fruitToLaunch[1].radius)

\* C14: the search of prepareNextFruit() ends and always leaves a pending body,
\* at the spawn height and at an x within the field; the body is either strictly
\* inside the side walls and overlaps no active body, or exactly at the centre,
\* and it is at the centre with an overlap only when no candidate at any offset
\* is free.
C14_Fallback ==
    [][ timers' = timers - 1 =>
            /\ fruitToLaunch' # << >>
            /\ fruitToLaunch'[1].y = SpawnY
            /\ fruitToLaunch'[1].x >= 0
            /\ fruitToLaunch'[1].x <= Width
            /\ \/ Free(fruits, fruitToLaunch'[1].x, fruitInQueue.radius)
               \/ /\ fruitToLaunch'[1].x = SpawnX
                  /\ NoneBelow(fruits, fruitInQueue.radius,
                               Px(5) * (CanvasWidth \div 5 + 2)) ]_vars

C14_Witness ==
    /\ last.op = "timer"
    /\ fruitToLaunch # << >>
    /\ fruitToLaunch[1].x = SpawnX
    /\ isOverlapping(fruits, SpawnX, SpawnY, fruitToLaunch[1].radius)

\* C15: right after a reset, whatever the state before it, the collection is
\* empty, the score is 0, gameOver is false, the queued fruit has a tier in 0..4
\* and a pending body exists, at rest, with angle 0, exactly at the spawn point
\* (width / 2, height - 50).
C15_Reset ==
    [][ used'.resets # used.resets =>
            /\ fruits' = << >>
            /\ score' = 0
            /\ ~gameOver'
            /\ fruitInQueue'.typeIndex \in 0..4
            /\ fruitToLaunch' # << >>
            /\ fruitToLaunch'[1].typeIndex \in 0..4
            /\ fruitToLaunch'[1].x = SpawnX
            /\ fruitToLaunch'[1].y = SpawnY
            /\ fruitToLaunch'[1].vx = 0
            /\ fruitToLaunch'[1].vy = 0
            /\ fruitToLaunch'[1].angle = 0 ]_vars

C15_Witness ==
    /\ last.op = "init"
    /\ used.resets > 0
    /\ used.launches = MaxLaunches
    /\ used.frames > 0
    /\ fruits = << >>
    /\ score = 0
    /\ fruitToLaunch # << >>

\* C16: in a step that is not a reset the score does not decrease; it changes
\* only in a step of update() that merges, and a step with one merge adds
\* exactly the score of the tier of the merged body (the body pushed last);
\* launches, timer firings and steps of update() without a merge (collisions,
\* wall bounces, game over) leave it unchanged.
C16_Score ==
    [][ used'.resets = used.resets =>
            /\ score' >= score
            /\ score' # score => (last'.stepped /\ last'.merges > 0)
            /\ (last'.stepped /\ used'.frames # used.frames /\ last'.merges = 0) =>
                  score' = score
            /\ (last'.stepped /\ used'.frames # used.frames /\ last'.merges = 1) =>
                  score' = score + FruitType(fruits'[Len(fruits')].typeIndex).score
            /\ used'.frames = used.frames => score' = score ]_vars

C16_Witness ==
    /\ last.op = "frame"
    /\ last.stepped
    /\ last.merges = 1
    /\ score = last.beforeScore + FruitType(fruits[Len(fruits)].typeIndex).score
    /\ score > 0

\* the tiers of a and b are equal and below the terminal tier 10
MergeTiers(a, b) == a.typeIndex = b.typeIndex /\ a.typeIndex # 10

\* C17: no active body has a tier above 10, and a step of update() on a
\* collection in which no two bodies have equal tiers below 10 (pairs of tier
\* 10, pairs of different tiers), whether they collide or not, merges nothing:
\* every body stays, with its tier, none is created and the score is unchanged.
C17_NoMerge ==
    last.stepped =>
        /\ \A k \in 1..Len(fruits) : fruits[k].typeIndex <= 10
        /\ (\A i, j \in 1..Len(last.before) :
               i < j => ~MergeTiers(last.before[i], last.before[j])) =>
              /\ last.merges = 0
              /\ Len(fruits) = Len(last.before)
              /\ score = last.beforeScore
              /\ \A k \in 1..Len(fruits) :
                    fruits[k].typeIndex = last.before[k].typeIndex

C17_Witness ==
    /\ last.stepped
    /\ Len(last.before) = 2
    /\ last.before[1].typeIndex = 10
    /\ last.before[2].typeIndex = 10
    /\ CollidingPairs(last.mid) # {}
    /\ Len(fruits) = 2
    /\ fruits[1].typeIndex = 10
    /\ fruits[2].typeIndex = 10

\* C18: in every state the occupancy calculateFillPercentage() returns, and the
\* one the last frame read, lie in [0, 100] percent, also when the summed areas
\* of the circles exceed the area of the field.
C18_Clamped ==
    /\ calculateFillPercentage(fruits) >= 0
    /\ calculateFillPercentage(fruits) <= 100 * SCALE
    /\ last.stepped => (last.fill >= 0 /\ last.fill <= 100 * SCALE)

C18_Witness ==
    /\ 355 * SumSquares(fruits) > 113 * (CanvasWidth * CanvasHeight)
    /\ calculateFillPercentage(fruits) = 100 * SCALE

\* the scenario of C20: two tier-0 bodies at rest inside the field, their centres
\* 10 pixels apart
C20_Scenario(fs) ==
    /\ Len(fs) = 2
    /\ \A k \in 1..2 :
          /\ fs[k].typeIndex = 0
          /\ fs[k].vx = 0
          /\ fs[k].vy = 0
          /\ InsideX(fs[k])
          /\ InsideY(fs[k])
    /\ Distance(fs[2].x - fs[1].x, fs[2].y - fs[1].y) = Px(10)

\* C20: a step of update() on two bodies that merges them leaves one body, with
\* angle 0, at the midpoint of the centres the two had when they were tested
\* (after the integration phase; the separation moves both by the same amount
\* in opposite directions); in the scenario the body is of tier 1, at the
\* midpoint of the original centres, at rest, and the score is higher by 2.
C20_Midpoint ==
    (last.stepped /\ Len(last.before) = 2 /\ last.merges = 1) =>
        /\ Len(fruits) = 1
        /\ fruits[1].x = RoundDiv(last.mid[1].x + last.mid[2].x, 2)
        /\ fruits[1].y = RoundDiv(last.mid[1].y + last.mid[2].y, 2)
        /\ fruits[1].angle = 0
        /\ C20_Scenario(last.before) =>
              /\ fruits[1].typeIndex = 1
              /\ fruits[1].radius = Px(20)
              /\ fruits[1].x = RoundDiv(last.before[1].x + last.before[2].x, 2)
              /\ fruits[1].y = RoundDiv(last.before[1].y + last.before[2].y, 2)
              /\ fruits[1].vx = 0
              /\ fruits[1].vy = 0
              /\ score = last.beforeScore + 2

C20_Witness ==
    /\ last.stepped
    /\ C20_Scenario(last.before)
    /\ last.merges = 1
    /\ Len(fruits) = 1
    /\ fruits[1].typeIndex = 1
    /\ fruits[1].x * 2 = last.before[1].x + last.before[2].x

\* where the body at index p of the collection is after a merge of the pair
\* (i, j), p being neither i nor j
Shifted(p, i, j) == IF p < i THEN p ELSE IF p < j THEN p - 1 ELSE p - 2

\* in the run of the pair loops, after every merge the bodies that had not yet
\* been fruits[i] of the outer loop are at indexes the outer loop still visits
NoneSkipped(run) ==
    \A n \in 1..(Len(run) - 1) :
        run[n + 1].merges > run[n].merges =>
            \A p \in (run[n].i + 1)..Len(run[n].fruits) :
                p # run[n].j => Shifted(p, run[n].i, run[n].j) >= run[n + 1].i

\* C21, as stated: after a merge of the pair (i, j) every surviving body that
\* had not yet been the first element of a pair is still the first element of
\* the pairs of a later pass of the outer loop of the same step.
C21_Original ==
    last.stepped => NoneSkipped(PairRun(PairStart(last.mid, last.beforeScore)))

\* the tiers generateRandomFruit() draws from: fruitTypes.slice(0, 5)
QueueTiers == 0..4

\* C22: whenever the settle timer runs prepareNextFruit(), the pending body it
\* leaves has the tier, radius and score that were queued just before, and the
\* queue holds a tier drawn from the first five; a step that neither runs the
\* timer nor resets the game leaves the queue as it was.
C22_OneAhead ==
    [][ /\ timers' = timers - 1 =>
            /\ fruitToLaunch' # << >>
            /\ fruitToLaunch'[1].typeIndex = fruitInQueue.typeIndex
            /\ fruitToLaunch'[1].radius = fruitInQueue.radius
            /\ fruitToLaunch'[1].score = fruitInQueue.score
            /\ fruitInQueue'.typeIndex \in QueueTiers
        /\ (timers' # timers - 1 /\ used'.resets = used.resets) =>
            fruitInQueue' = fruitInQueue ]_vars

\* the timer has run prepareNextFruit() and the pending body has the tier that
\* was queued, which is not the tier queued now
C22_Witness ==
    /\ last.op = "timer"
    /\ fruitToLaunch # << >>
    /\ fruitToLaunch[1].typeIndex # fruitInQueue.typeIndex

\* C23: with timers that fire, an empty pending-body slot is always filled again
\* later, game over or not; a launch takes effect only from a filled slot, which
\* it empties while it sets a timer, and an empty slot is filled only by a step
\* that runs prepareNextFruit() (a timer or a reset), so one such step lies
\* between any two launches.
C23_Spawn ==
    /\ (fruitToLaunch = << >>) ~> (fruitToLaunch # << >>)
    /\ [][ /\ used'.launches # used.launches =>
               /\ fruitToLaunch # << >>
               /\ fruitToLaunch' = << >>
               /\ timers' = timers + 1
           /\ (fruitToLaunch = << >> /\ fruitToLaunch' # << >>) =>
               (timers' = timers - 1 \/ used'.resets # used.resets) ]_vars

\* the timer of a launch has filled the slot after the game became over
C23_Witness ==
    /\ gameOver
    /\ last.op = "timer"
    /\ used.launches > 0
    /\ fruitToLaunch # << >>

\* C24, as stated: there is never more than one pending requestAnimationFrame
\* callback of gameLoop().
C24_Original == rafPending <= 1

\* C25, as stated: while gameOver is true and until the next reset, no step
\* changes the active collection.
C25_Original ==
    [][(gameOver /\ used'.resets = used.resets) => fruits' = fruits]_vars

\* the occupancy of the collection fs is 90 percent or more
Full(fs) == 355 * SumSquares(fs) * 10 >= 113 * (CanvasWidth * CanvasHeight) * 9

\* C26, as stated: after a frame that started with an occupancy of 90 percent or
\* more and the game not over, gameOver is true.
C26_Original == (last.stepped /\ Full(last.before)) => gameOver

\* C26, amended: after a frame that started with an occupancy of 90 percent or
\* more and the game not over, gameOver is true exactly when the collection left
\* by update() has an occupancy of 90 percent or more; it is true whenever
\* update() merged nothing.
C26_NextFrame ==
    (last.stepped /\ Full(last.before)) =>
        /\ gameOver <=> Full(fruits)
        /\ last.merges = 0 => gameOver

\* a launch filled the field and the frame after it set gameOver
C26_Witness ==
    /\ last.op = "frame"
    /\ last.stepped
    /\ Full(last.before)
    /\ used.launches > 0
    /\ gameOver

\* C27: the number of active bodies is the number of effective launches minus
\* the number of merges since the last reset: a reset leaves no body, an
\* effective launch adds one, a frame takes away one per merge of its step, and
\* no other step changes the number.
C27_Conserved ==
    [][ Len(fruits') =
            IF used'.resets # used.resets THEN 0
            ELSE IF used'.launches # used.launches THEN Len(fruits) + 1
            ELSE IF used'.frames # used.frames THEN Len(fruits) - last'.merges
            ELSE Len(fruits) ]_vars

\* two launches and one merge since the start: one body
C27_Witness ==
    /\ used.resets = 0
    /\ used.launches = 2
    /\ last.op = "frame"
    /\ last.merges = 1
    /\ Len(fruits) = 1

\* both loop conditions hold at st: the body of the inner loop runs and reads
\* fruits[i] and fruits[j]
Examined(st) == st.i <= Len(st.fruits) /\ st.j <= Len(st.fruits)

\* in the run of the pair loops every pair examined is one of two different
\* indexes of the collection as it is then, the run is no longer than the number
\* of loop tests a collection of n bodies allows, and it ends with i past the end
PairsInside(run, n) ==
    /\ \A k \in 1..Len(run) :
          Examined(run[k]) =>
              /\ run[k].i \in DOMAIN run[k].fruits
              /\ run[k].j \in DOMAIN run[k].fruits
              /\ run[k].i # run[k].j
    /\ Len(run) <= ((n + 1) * (n + 2)) \div 2
    /\ run[Len(run)].i > Len(run[Len(run)].fruits)

\* C28: in every step of update() the pair loops end, and each time they examine
\* a pair, i and j are two different indexes inside the collection as it is at
\* that time, whatever merged before in the same step.
C28_InBounds ==
    last.stepped =>
        PairsInside(PairRun(PairStart(last.mid, last.beforeScore)), Len(last.mid))

\* a step of update() on four bodies that merged two of them and then the body
\* it made with a third
C28_Witness ==
    /\ last.stepped
    /\ Len(last.before) = 4
    /\ last.merges = 2
    /\ \E k \in 1..Len(fruits) : fruits[k].typeIndex = 2

\* the fruit carries the entry of the catalog at its typeIndex
Catalogued(f) ==
    /\ f.typeIndex \in 0..10
    /\ f.rank = f.typeIndex
    /\ f.radius = FruitTypes[f.typeIndex + 1].radius
    /\ f.score = FruitTypes[f.typeIndex + 1].score
    /\ f.radius > 0

\* C29: in every state every active body, the pending body and the queued fruit
\* have a typeIndex in 0..10 equal to their rank and the radius and score of the
\* catalog entry at that index, so every radius is positive; m1 + m2 of any two
\* active bodies and the newMass of a merge of any body below tier 10 are not
\* zero.
C29_Catalogued ==
    /\ \A k \in 1..Len(fruits) : Catalogued(fruits[k])
    /\ fruitToLaunch # << >> => Catalogued(fruitToLaunch[1])
    /\ Catalogued(fruitInQueue)
    /\ \A a, b \in 1..Len(fruits) : fruits[a].radius + fruits[b].radius # 0
    /\ \A k \in 1..Len(fruits) :
          fruits[k].typeIndex < 10 => FruitTypes[fruits[k].typeIndex + 2].radius # 0

\* a body made by a merge of two launched ones is active while a body is pending
C29_Witness ==
    /\ last.stepped
    /\ last.merges > 0
    /\ \E k \in 1..Len(fruits) : fruits[k].typeIndex = 5
    /\ fruitToLaunch # << >>

\* C30: a frame leaves the pending body and the queued fruit as they were, also
\* when the pending body overlaps active bodies: the collection after the frame
\* is what update() makes of the active bodies alone; gameOver changes in a
\* frame only from false to true, with the collection left at 90 percent or
\* more (the test of draw(), not update()).
C30_StepAlone ==
    [][ used'.frames # used.frames =>
            /\ fruitToLaunch' = fruitToLaunch
            /\ fruitInQueue' = fruitInQueue
            /\ timers' = timers
            /\ last'.stepped => fruits' = update(fruits, score).fruits
            /\ gameOver' # gameOver => (gameOver' /\ Full(fruits')) ]_vars

\* update() has moved the active bodies while a pending body lay over one of
\* them
C30_Witness ==
    /\ last.op = "frame"
    /\ last.stepped
    /\ fruitToLaunch # << >>
    /\ isOverlapping(last.before, fruitToLaunch[1].x, fruitToLaunch[1].y,
                     fruitToLaunch[1].radius)
    /\ isOverlapping(fruits, fruitToLaunch[1].x, fruitToLaunch[1].y,
                     fruitToLaunch[1].radius)
    /\ fruits # last.before

====
